---------------------------- MODULE Spec2Model ----------------------------
(***************************************************************************)
(* A model of the WebSocket connection of RommHui/websocket: the frame     *)
(* codec (frame.go), the masking filter and full reads (common.go), the    *)
(* message layer (message.go) and the connection facade (webSocket, its    *)
(* Close, Ping, sendFrame and readFrame).                                   *)
(*                                                                         *)
(* The connection's reader is a byte stream that the peer has filled; its  *)
(* writer is the sequence of the Write calls made on it.  Two tasks use    *)
(* the connection: R (ReadMessage, reads of a message body, Ping, Close)   *)
(* and W (Send, SendMessage).  Every step of a task holds at most one      *)
(* access to state the other task can touch.                               *)
(***************************************************************************)
EXTENDS Integers, Sequences, FiniteSets, TLC

\* ------------------------------------------------------------ constants

ContinuationFrame == 0
TextFrame == 1
BinaryFrame == 2
ConnectionClose == 8
Ping == 9
Pong == 10

OPEN == 1
CLOSING == 2
CLOSED == 3

\* Length of sendMessage's chunk buffer (2048 in the code), scaled down.
BufLen == 2
\* Longest payload the application hands to Send or SendMessage.
MaxPayload == 3
\* Most frames the peer has put on the incoming stream.
MaxPeerFrames == 3
\* Most API calls (Send, SendMessage, ReadMessage, Ping, Close) in a run.
MaxCalls == 2
\* Most reads the application makes on message bodies in a run.
MaxBodyReads == 4

Tasks == {"R", "W"}

Min(a, b) == IF a < b THEN a ELSE b

\* ------------------------------------------------------------ bytes

RECURSIVE Xor(_, _)
\* a ^ b on bytes
Xor(a, b) ==
  IF a = 0 THEN b
  ELSE IF b = 0 THEN a
  ELSE ((a + b) % 2) + 2 * Xor(a \div 2, b \div 2)

\* A faulty maskReader: the key index starts again at 0 on every Read.
MaskNext_Restart(i, n) == 0

\* maskReader: the key index after a Read of n bytes that began at index i
\* (i = (i + 1) & 0b11, once per byte).
MaskNext(i, n) == (i + n) % 4

\* maskReader: the bytes of one Read, XORed with the key from index i on.
MaskBytes(key, i, bs) ==
  [j \in 1..Len(bs) |-> Xor(bs[j], key[((i + j - 1) % 4) + 1])]

RECURSIVE BigEndianPack(_, _)
\* n written big-endian into a slice of `width` bytes.
BigEndianPack(width, n) ==
  IF width = 0 THEN <<>>
  ELSE Append(BigEndianPack(width - 1, n \div 256), n % 256)

RECURSIVE BigEndianUnpack(_)
\* The big-endian value of the bytes of a slice.
BigEndianUnpack(bs) ==
  IF Len(bs) = 0 THEN 0
  ELSE 256 * BigEndianUnpack(SubSeq(bs, 1, Len(bs) - 1)) + bs[Len(bs)]

\* ------------------------------------------------------------ frame codec

\* Frame.Encode's header: the bytes before the payload, for a payload of n
\* bytes and the mask key drawn for this frame.
EncodeHeader(fin, op, msk, n, key) ==
  LET b0  == (IF fin THEN 128 ELSE 0) + op
      ext == IF n < 125 THEN 0 ELSE IF n < 65536 THEN 2 ELSE 8
      l7  == IF n < 125 THEN n ELSE IF n < 65536 THEN 126 ELSE 127
      b1  == (IF msk THEN 128 ELSE 0) + l7
  IN  <<b0, b1>> \o BigEndianPack(ext, n) \o (IF msk THEN key ELSE <<>>)

\* Frame.Encode's payload bytes as they leave the MultiReader.
EncodePayload(msk, key, payload) ==
  IF msk THEN MaskBytes(key, 0, payload) ELSE payload

\* Frame.Decode on the bytes `s` the stream still holds (closed: the stream
\* was closed by Close).  err is "nil", or the error of the failed full read;
\* rest is what the stream holds after the header.
NoKey == <<0, 0, 0, 0>>
DecodeFail(e) ==
  [err |-> e, fin |-> FALSE, op |-> 0, mask |-> FALSE, n |-> 0,
   key |-> NoKey, used |-> 0]
\* A faulty Decode: the mask key is taken from the bytes right after the
\* first two, also when an extended length lies there.
Decode_KeyBeforeLength(s, closed) ==
  IF closed THEN DecodeFail("ReadErr")
  ELSE IF Len(s) < 2 THEN [DecodeFail("EOF") EXCEPT !.used = Len(s)]
  ELSE
    LET b0  == s[1]
        b1  == s[2]
        msk == b1 >= 128
        l7  == b1 % 128
        ext == IF l7 = 126 THEN 2 ELSE IF l7 = 127 THEN 8 ELSE 0
        hl  == 2 + ext + (IF msk THEN 4 ELSE 0)
    IN  IF Len(s) < hl THEN [DecodeFail("EOF") EXCEPT !.used = Len(s)]
        ELSE [err  |-> "nil",
              fin  |-> b0 >= 128,
              op   |-> b0 % 16,
              mask |-> msk,
              n    |-> IF ext > 0 THEN BigEndianUnpack(SubSeq(s, 3, 2 + ext))
                       ELSE l7,
              key  |-> IF msk THEN SubSeq(s, 3, 6) ELSE NoKey,
              used |-> hl]

Decode(s, closed) ==
  IF closed THEN DecodeFail("ReadErr")
  ELSE IF Len(s) < 2 THEN [DecodeFail("EOF") EXCEPT !.used = Len(s)]
  ELSE
    LET b0  == s[1]
        b1  == s[2]
        msk == b1 >= 128
        l7  == b1 % 128
        ext == IF l7 = 126 THEN 2 ELSE IF l7 = 127 THEN 8 ELSE 0
        hl  == 2 + ext + (IF msk THEN 4 ELSE 0)
    IN  IF Len(s) < hl THEN [DecodeFail("EOF") EXCEPT !.used = Len(s)]
        ELSE [err  |-> "nil",
              fin  |-> b0 >= 128,
              op   |-> b0 % 16,
              mask |-> msk,
              n    |-> IF ext > 0 THEN BigEndianUnpack(SubSeq(s, 3, 2 + ext))
                       ELSE l7,
              key  |-> IF msk THEN SubSeq(s, 3 + ext, 6 + ext) ELSE NoKey,
              used |-> hl]

\* ------------------------------------------------------------ state

VARIABLES
  status,    \* webSocket.status
  mask,      \* webSocket.mask
  wClosed,   \* Close has been called on webSocket.writer
  rClosed,   \* Close has been called on webSocket.reader
  inb,       \* the bytes webSocket.reader still holds (the peer sent them)
  rdpos,     \* history: how many bytes have been read from webSocket.reader
  peer,      \* history: the frames the peer sent, in order
  out,       \* the Write calls made on webSocket.writer, in order
  pc,        \* each task's position
  call,      \* each task's API call in progress
  sm,        \* each task's sendMessage activation
  msg,       \* the Message the last ReadMessage produced
  body,      \* the frame its body reader holds (readMessage's closure)
  ret,       \* history: each task's last return
  ncalls,    \* API calls made so far
  nreads     \* reads the application has made on message bodies

vars == <<status, mask, wClosed, rClosed, inb, rdpos, peer, out, pc, call,
          sm, msg, body, ret, ncalls, nreads>>

\* ------------------------------------------------------------ the peer

\* The key a masking peer (a client) uses, and the keys rand.Int() gives us.
PeerKey == <<1, 2, 3, 4>>
Keys == {<<0, 0, 0, 0>>, <<3, 129, 7, 138>>}

Frm(fin, op, payload) == [fin |-> fin, op |-> op, payload |-> payload]

\* The wire bytes of one peer frame; a peer of a server masks its frames.
PeerBytes(f, msk) ==
  EncodeHeader(f.fin, f.op, msk, Len(f.payload), PeerKey)
    \o EncodePayload(msk, PeerKey, f.payload)

RECURSIVE Wire(_, _)
Wire(fs, msk) ==
  IF Len(fs) = 0 THEN <<>>
  ELSE PeerBytes(Head(fs), msk) \o Wire(Tail(fs), msk)

\* Offset in the incoming stream at which the peer's k-th frame starts.
StartOf(k) == Len(Wire(SubSeq(peer, 1, k - 1), ~mask))
EndOf(k) == Len(Wire(SubSeq(peer, 1, k), ~mask))
\* The peer frame that starts at offset `at` (0: none does).
FrameAt(at) ==
  IF \E k \in 1..Len(peer) : StartOf(k) = at
  THEN CHOOSE k \in 1..Len(peer) : StartOf(k) = at
  ELSE 0
\* The peer's k-th frame arrived whole (the stream was not cut inside it).
Whole(k) == EndOf(k) <= rdpos + Len(inb)

\* ------------------------------------------------------------ message body

NoBody ==
  [has |-> FALSE, fin |-> FALSE, n |-> 0, mask |-> FALSE, key |-> NoKey,
   ki |-> 0]
\* A faulty FrameBody: Decode forgets to wrap the payload in its maskReader.
FrameBody_NoUnmask(fr) ==
  [has |-> TRUE, fin |-> fr.fin, n |-> fr.n, mask |-> FALSE,
   key |-> fr.key, ki |-> 0]

FrameBody(fr) ==
  [has |-> TRUE, fin |-> fr.fin, n |-> fr.n, mask |-> fr.mask,
   key |-> fr.key, ki |-> 0]
\* What a decoded frame leaves in the call's history.
RxOf(fr, at) == [op |-> fr.op, fin |-> fr.fin, n |-> fr.n, at |-> at]

\* frame.Payload.Read(b) with len(b) = k on the frame `bd`, the stream
\* holding `s` and delivering at most d bytes to one Read; then the body
\* reader's handling of the end of a frame that is not final.
ReadCur(bd, k, d, s, closed) ==
  LET plen == Min(k, bd.n)
      n    == IF bd.n <= 0 \/ plen = 0 \/ closed THEN 0
              ELSE Min(d, Min(plen, Len(s)))
      err  == IF bd.n <= 0 THEN "EOF"
              ELSE IF closed THEN "ReadErr"
              ELSE IF plen = 0 THEN "nil"
              ELSE IF Len(s) = 0 THEN "EOF"
              ELSE "nil"
      raw  == SubSeq(s, 1, n)
      next == err = "EOF" /\ ~bd.fin
  IN  [data |-> IF bd.mask THEN MaskBytes(bd.key, bd.ki, raw) ELSE raw,
       err  |-> IF next THEN "nil" ELSE err,
       body |-> IF next THEN NoBody
                ELSE [bd EXCEPT !.n = bd.n - n, !.ki = MaskNext(bd.ki, n)],
       used |-> n,
       rx   |-> <<>>]

\* webSocket.readFrame: the status gate, then Frame.Decode.
\* A faulty readFrame: it decodes without looking at the status.
ReadFrame_NoGate == Decode(inb, rClosed)

ReadFrame ==
  IF status > OPEN THEN DecodeFail("ErrClosedStatus")
  ELSE Decode(inb, rClosed)

\* A faulty body reader: the next frame's opcode is not looked at.
BodyRead_AnyOpCode(bd, k, d) ==
  IF bd.has THEN ReadCur(bd, k, d, inb, rClosed)
  ELSE
    LET fr == ReadFrame
        rx == <<RxOf(fr, rdpos)>>
    IN  IF fr.err # "nil"
        THEN [data |-> <<>>, err |-> fr.err, body |-> NoBody,
              used |-> fr.used, rx |-> <<>>]
        ELSE LET r == ReadCur(FrameBody(fr), k, d,
                              SubSeq(inb, fr.used + 1, Len(inb)), rClosed)
             IN  [r EXCEPT !.used = fr.used + r.used, !.rx = rx]

\* One Read(b), len(b) = k, on the body of the Message readMessage returns.
BodyRead(bd, k, d) ==
  IF bd.has THEN ReadCur(bd, k, d, inb, rClosed)
  ELSE
    LET fr == ReadFrame
        rx == <<RxOf(fr, rdpos)>>
    IN  IF fr.err # "nil"
        THEN [data |-> <<>>, err |-> fr.err, body |-> NoBody,
              used |-> fr.used, rx |-> <<>>]
        ELSE IF fr.op # ContinuationFrame
        THEN [data |-> <<>>, err |-> "ErrPreviousMessageNotReadToCompletion",
              body |-> FrameBody(fr), used |-> fr.used, rx |-> rx]
        ELSE LET r == ReadCur(FrameBody(fr), k, d,
                              SubSeq(inb, fr.used + 1, Len(inb)), rClosed)
             IN  [r EXCEPT !.used = fr.used + r.used, !.rx = rx]

\* ------------------------------------------------------------ calls

NoCall ==
  [api |-> "none", id |-> 0, st0 |-> 0, rd0 |-> 0, rd1 |-> 0, rx |-> <<>>,
   cerr |-> "nil", err |-> "nil", data |-> <<>>, op |-> 0, P |-> <<>>]
\* The record of an API call that starts now (op, P: what Send or
\* SendMessage was given).
NewCall(api, op, P) ==
  [NoCall EXCEPT !.api = api, !.id = ncalls + 1, !.st0 = status,
                 !.rd0 = rdpos, !.rd1 = rdpos, !.op = op, !.P = P]
\* The record a call leaves when it returns e, the stream read up to rd.
Returned(c, e, rd) == [c EXCEPT !.err = e, !.rd1 = rd]

NoMsg ==
  [has |-> FALSE, ret |-> FALSE, op |-> 0, op0 |-> 0, id |-> 0,
   got |-> <<>>, errs |-> <<>>]

\* ------------------------------------------------------------ sendMessage

SmOff ==
  [ph |-> "off", op |-> 0, fin |-> FALSE, buf |-> <<>>, kind |-> "empty",
   rem |-> <<>>, key |-> NoKey, err |-> "nil", P |-> <<>>, op0 |-> 0,
   spin |-> 0]
\* sendMessage(message) entered: frame.OpCode = message.OpCode, offset = 0.
\* kind is the message's Reader: "empty" (nil, so emptyReader), "buf" (the
\* bytes.Buffer of Send), "any" (a caller's io.Reader), "short" (a caller's
\* io.Reader that never fails: it delivers its bytes in reads of any sizes,
\* answers a Read into an empty buffer with (0, nil), and then reports
\* EOF), "body" (the body of a received Message).
\* spin is the parity of the loop iterations made in a row that changed
\* neither offset nor the Reader.
SmStart(op, kind, P) ==
  [SmOff EXCEPT !.ph = "read", !.op = op, !.op0 = op, !.kind = kind,
                !.rem = P, !.P = P]

\* What message.Read(buf[offset:]), k = len(buf[offset:]), may return for a
\* Reader that is not a message body: n bytes and an error.
SrcReads(kind, rem, k) ==
  IF kind = "empty" THEN {[n |-> 0, err |-> "EOF"]}
  ELSE IF kind = "buf"
  THEN IF Len(rem) = 0
       THEN {[n |-> 0, err |-> IF k = 0 THEN "nil" ELSE "EOF"]}
       ELSE {[n |-> Min(k, Len(rem)), err |-> "nil"]}
  ELSE IF kind = "short"
  THEN IF k = 0 THEN {[n |-> 0, err |-> "nil"]}
       ELSE (IF Len(rem) = 0 THEN {[n |-> 0, err |-> "EOF"]} ELSE {})
            \cup {[n |-> n, err |-> "nil"] : n \in 1..Min(k, Len(rem))}
            \cup (IF Len(rem) > 0 /\ Len(rem) <= k
                  THEN {[n |-> Len(rem), err |-> "EOF"]} ELSE {})
  ELSE {[n |-> 0, err |-> "SrcErr"]}
       \cup (IF k = 0 THEN {[n |-> 0, err |-> "nil"]} ELSE {})
       \cup (IF Len(rem) = 0 THEN {[n |-> 0, err |-> "EOF"]} ELSE {})
       \cup {[n |-> n, err |-> "nil"] : n \in 1..Min(k, Len(rem))}
       \cup (IF Len(rem) > 0 /\ Len(rem) <= k
             THEN {[n |-> Len(rem), err |-> "EOF"]} ELSE {})

\* The keys Encode may draw for a frame.
KeySet == IF mask THEN Keys ELSE {NoKey}

\* sendMessage after one Read returned (data, err): fail, read on, or hand
\* the chunk to sendFrame, which refuses it when status > OPEN.
AfterRead(s, data, err, key) ==
  LET b == s.buf \o data
  IN  IF err \notin {"nil", "EOF"}
      THEN [s EXCEPT !.ph = "done", !.err = err, !.spin = 0]
      ELSE IF err = "nil" /\ Len(data) < BufLen
      THEN [s EXCEPT !.buf = b,
                     !.spin = IF data = <<>> THEN 1 - s.spin ELSE 0]
      ELSE IF status > OPEN
      THEN [s EXCEPT !.buf = b, !.fin = err # "nil", !.ph = "done",
                     !.err = "ErrClosedStatus", !.spin = 0]
      ELSE [s EXCEPT !.buf = b, !.fin = err # "nil", !.ph = "hdr",
                     !.key = key, !.spin = 0]

\* sendMessage after sendFrame returned nil for the frame in s.
\* A faulty loop tail: the opcode is not switched to Continuation.
AfterFrame_KeepOpCode(s) ==
  IF s.fin THEN [s EXCEPT !.ph = "done", !.err = "nil"]
  ELSE [s EXCEPT !.ph = "read", !.buf = <<>>]

AfterFrame(s) ==
  IF s.fin THEN [s EXCEPT !.ph = "done", !.err = "nil"]
  ELSE [s EXCEPT !.ph = "read", !.buf = <<>>, !.op = ContinuationFrame]

Written(t, bs) == [id |-> call[t].id, t |-> t, b |-> bs]

\* One iteration of sendMessage's loop, the Reader not a message body.
SmRead(t) ==
  /\ sm[t].ph = "read"
  /\ sm[t].kind # "body"
  /\ \E r \in SrcReads(sm[t].kind, sm[t].rem, BufLen - Len(sm[t].buf)),
        key \in KeySet :
       sm' = [sm EXCEPT ![t] =
                AfterRead([sm[t] EXCEPT
                             !.rem = SubSeq(sm[t].rem, r.n + 1, Len(sm[t].rem))],
                          SubSeq(sm[t].rem, 1, r.n), r.err, key)]
  /\ UNCHANGED <<status, mask, wClosed, rClosed, inb, rdpos, peer, out, pc,
                 call, msg, body, ret, ncalls, nreads>>

\* One iteration of sendMessage's loop, reading the body of the received
\* Message (responsePong).
SmReadBody(t) ==
  /\ sm[t].ph = "read"
  /\ sm[t].kind = "body"
  /\ \E d \in 1..BufLen, key \in KeySet :
       LET r == BodyRead(body, BufLen - Len(sm[t].buf), d)
       IN  /\ sm' = [sm EXCEPT ![t] = AfterRead(sm[t], r.data, r.err, key)]
           /\ body' = r.body
           /\ inb' = SubSeq(inb, r.used + 1, Len(inb))
           /\ rdpos' = rdpos + r.used
           /\ call' = [call EXCEPT ![t].rx = call[t].rx \o r.rx]
  /\ UNCHANGED <<status, mask, wClosed, rClosed, peer, out, pc, msg, ret,
                 ncalls, nreads>>

\* sendFrame's io.Copy, first Write: the header of the encoded frame.
SmHdr(t) ==
  /\ sm[t].ph = "hdr"
  /\ \E ok \in BOOLEAN :
       IF ok /\ ~wClosed
       THEN /\ out' = Append(out, Written(t,
                        EncodeHeader(sm[t].fin, sm[t].op, mask,
                                     Len(sm[t].buf), sm[t].key)))
            /\ sm' = [sm EXCEPT ![t] =
                        IF Len(sm[t].buf) = 0 THEN AfterFrame(sm[t])
                        ELSE [sm[t] EXCEPT !.ph = "pay"]]
       ELSE /\ out' = out
            /\ sm' = [sm EXCEPT ![t].ph = "done", ![t].err = "WriteErr"]
  /\ UNCHANGED <<status, mask, wClosed, rClosed, inb, rdpos, peer, pc, call,
                 msg, body, ret, ncalls, nreads>>

\* sendFrame's io.Copy, second Write: the payload of the encoded frame.
SmPay(t) ==
  /\ sm[t].ph = "pay"
  /\ \E ok \in BOOLEAN :
       IF ok /\ ~wClosed
       THEN /\ out' = Append(out, Written(t,
                        EncodePayload(mask, sm[t].key, sm[t].buf)))
            /\ sm' = [sm EXCEPT ![t] = AfterFrame(sm[t])]
       ELSE /\ out' = out
            /\ sm' = [sm EXCEPT ![t].ph = "done", ![t].err = "WriteErr"]
  /\ UNCHANGED <<status, mask, wClosed, rClosed, inb, rdpos, peer, pc, call,
                 msg, body, ret, ncalls, nreads>>

\* ------------------------------------------------------------ task W

\* Send(text) (api "Send", op TextFrame, kind "buf") or SendMessage(message).
\* conc: the call may start while task R is inside ReadMessage.
CallSend(api, op, kind, P, conc) ==
  /\ pc["W"] = "idle"
  /\ ncalls < MaxCalls
  /\ IF conc THEN call["R"].api \in {"none", "ReadMessage"}
     ELSE pc["R"] = "idle"
  /\ pc' = [pc EXCEPT !["W"] = "send"]
  /\ call' = [call EXCEPT !["W"] = NewCall(api, op, P)]
  /\ sm' = [sm EXCEPT !["W"] = SmStart(op, kind, P)]
  /\ ncalls' = ncalls + 1
  /\ UNCHANGED <<status, mask, wClosed, rClosed, inb, rdpos, peer, out, msg,
                 body, ret, nreads>>

\* A faulty return path: a send that failed marks the connection Closing.
SendMessageStatus_ClosingOnError(st, err) ==
  IF err # "nil" THEN CLOSING ELSE st

\* w.status when sendMessage returns err to SendMessage, having been st:
\* neither sendMessage nor sendFrame assigns it.
SendMessageStatus(st, err) == st

\* SendMessage returns what sendMessage returned.
SendDone ==
  /\ pc["W"] = "send"
  /\ sm["W"].ph = "done"
  /\ ret' = [ret EXCEPT !["W"] = Returned(call["W"], sm["W"].err, rdpos)]
  /\ status' = SendMessageStatus(status, sm["W"].err)
  /\ pc' = [pc EXCEPT !["W"] = "idle"]
  /\ call' = [call EXCEPT !["W"] = NoCall]
  /\ sm' = [sm EXCEPT !["W"] = SmOff]
  /\ UNCHANGED <<mask, wClosed, rClosed, inb, rdpos, peer, out, msg,
                 body, ncalls, nreads>>

\* ------------------------------------------------------------ task R

\* ReadMessage is over for the call c with error e, the Message's OpCode
\* field being mop and the stream read up to rd: it returns to the
\* application, or to ping's loop, which goes on unless the OpCode is Pong.
RmFinish(c, e, mop, rd) ==
  IF c.api = "Ping" /\ e = "nil"
  THEN /\ pc' = [pc EXCEPT !["R"] = IF mop # Pong THEN "rm_read"
                                    ELSE "pg_drain"]
       /\ call' = [call EXCEPT !["R"] = c]
       /\ ret' = ret
  ELSE /\ pc' = [pc EXCEPT !["R"] = "idle"]
       /\ call' = [call EXCEPT !["R"] = NoCall]
       /\ ret' = [ret EXCEPT !["R"] = Returned(c, e, rd)]

\* Close is over with error e: it returns to the application, or to the
\* ReadMessage that called it for a Close frame.
CloseFinish(c, e) ==
  IF c.api = "Close"
  THEN /\ pc' = [pc EXCEPT !["R"] = "idle"]
       /\ call' = [call EXCEPT !["R"] = NoCall]
       /\ ret' = [ret EXCEPT !["R"] = Returned(c, e, rdpos)]
       /\ msg' = msg
  ELSE /\ RmFinish(c, e, msg.op, rdpos)
       /\ msg' = [msg EXCEPT !.ret = e = "nil" /\ c.api = "ReadMessage"]

RIdleFor(conc) ==
  /\ pc["R"] = "idle"
  /\ conc \/ pc["W"] = "idle"

CallReadMessage(conc) ==
  /\ RIdleFor(conc)
  /\ ncalls < MaxCalls
  /\ pc' = [pc EXCEPT !["R"] = "rm_read"]
  /\ call' = [call EXCEPT !["R"] = NewCall("ReadMessage", 0, <<>>)]
  /\ msg' = NoMsg
  /\ ncalls' = ncalls + 1
  /\ UNCHANGED <<status, mask, wClosed, rClosed, inb, rdpos, peer, out, sm,
                 body, ret, nreads>>

\* readMessage (the first frame is read), then ReadMessage's dispatch on
\* the Message's OpCode: responsePong, Close, or return.
RmRead ==
  /\ pc["R"] = "rm_read"
  /\ LET fr == ReadFrame
         c  == IF fr.err = "nil"
               THEN [call["R"] EXCEPT !.rx = call["R"].rx
                                               \o <<RxOf(fr, rdpos)>>]
               ELSE call["R"]
         m  == [NoMsg EXCEPT !.has = TRUE, !.op = fr.op, !.op0 = fr.op,
                             !.id = c.id]
     IN  /\ inb' = SubSeq(inb, fr.used + 1, Len(inb))
         /\ rdpos' = rdpos + fr.used
         /\ IF fr.err # "nil"
            THEN /\ RmFinish(c, fr.err, 0, rdpos + fr.used)
                 /\ UNCHANGED <<msg, body, sm>>
            ELSE /\ body' = FrameBody(fr)
                 /\ IF fr.op = Ping
                    THEN /\ msg' = [m EXCEPT !.op = Pong]
                         /\ sm' = [sm EXCEPT !["R"] =
                                     SmStart(Pong, "body", <<>>)]
                         /\ pc' = [pc EXCEPT !["R"] = "rm_pong"]
                         /\ call' = [call EXCEPT !["R"] = c]
                         /\ ret' = ret
                    ELSE IF fr.op = ConnectionClose
                    THEN /\ msg' = m
                         /\ sm' = [sm EXCEPT !["R"] =
                                     SmStart(ConnectionClose, "empty", <<>>)]
                         /\ pc' = [pc EXCEPT !["R"] = "cl_send"]
                         /\ call' = [call EXCEPT !["R"] = c]
                         /\ ret' = ret
                    ELSE /\ msg' = [m EXCEPT !.ret = c.api = "ReadMessage"]
                         /\ sm' = sm
                         /\ RmFinish(c, "nil", fr.op, rdpos + fr.used)
  /\ UNCHANGED <<status, mask, wClosed, rClosed, peer, out, ncalls, nreads>>

\* responsePong's SendMessage returned: ReadMessage returns its error, or
\* the Message.
RmPongDone ==
  /\ pc["R"] = "rm_pong"
  /\ sm["R"].ph = "done"
  /\ RmFinish(call["R"], sm["R"].err, msg.op, rdpos)
  /\ msg' = [msg EXCEPT !.ret = sm["R"].err = "nil"
                                  /\ call["R"].api = "ReadMessage"]
  /\ sm' = [sm EXCEPT !["R"] = SmOff]
  /\ UNCHANGED <<status, mask, wClosed, rClosed, inb, rdpos, peer, out, body,
                 ncalls, nreads>>

\* Close(), called by the application.
CallClose ==
  /\ RIdleFor(FALSE)
  /\ ncalls < MaxCalls
  /\ pc' = [pc EXCEPT !["R"] = "cl_send"]
  /\ call' = [call EXCEPT !["R"] = NewCall("Close", 0, <<>>)]
  /\ sm' = [sm EXCEPT !["R"] = SmStart(ConnectionClose, "empty", <<>>)]
  /\ ncalls' = ncalls + 1
  /\ UNCHANGED <<status, mask, wClosed, rClosed, inb, rdpos, peer, out, msg,
                 body, ret, nreads>>

\* Close after its sendMessage returned: status = CLOSING, and the error,
\* if any, is returned.
ClSendDone ==
  /\ pc["R"] = "cl_send"
  /\ sm["R"].ph = "done"
  /\ status' = CLOSING
  /\ sm' = [sm EXCEPT !["R"] = SmOff]
  /\ IF sm["R"].err # "nil"
     THEN CloseFinish(call["R"], sm["R"].err)
     ELSE /\ pc' = [pc EXCEPT !["R"] = "cl_w"]
          /\ UNCHANGED <<call, ret, msg>>
  /\ UNCHANGED <<mask, wClosed, rClosed, inb, rdpos, peer, out, body, ncalls,
                 nreads>>

\* What Close() of a stream may return.
CloseResults(closed) ==
  IF closed THEN {"ErrClosed"} ELSE {"nil", "ErrClosed", "CloseErr"}

\* The graver of two close results: a failure, before "already closed",
\* before nil.
Worse(a, b) ==
  IF "CloseErr" \in {a, b} THEN "CloseErr"
  ELSE IF "ErrClosed" \in {a, b} THEN "ErrClosed"
  ELSE "nil"

\* The test Close makes on a stream's close error: closeErr != nil &&
\* errors.Is(err, net.ErrClosed), err being sendMessage's error, nil here.
CloseLoopReturns(closeErr, err) == closeErr # "nil" /\ err = "ErrClosed"

\* w.writer.Close()
ClCloseW ==
  /\ pc["R"] = "cl_w"
  /\ \E e \in CloseResults(wClosed) :
       LET c == [call["R"] EXCEPT !.cerr = Worse(call["R"].cerr, e)]
       IN  IF CloseLoopReturns(e, "nil")
           THEN CloseFinish(c, e)
           ELSE /\ pc' = [pc EXCEPT !["R"] = "cl_r"]
                /\ call' = [call EXCEPT !["R"] = c]
                /\ UNCHANGED <<ret, msg>>
  /\ wClosed' = TRUE
  /\ UNCHANGED <<status, mask, rClosed, inb, rdpos, peer, out, sm, body,
                 ncalls, nreads>>

\* w.reader.Close(), then status = CLOSED and Close returns nil.
ClCloseR ==
  /\ pc["R"] = "cl_r"
  /\ \E e \in CloseResults(rClosed) :
       LET c == [call["R"] EXCEPT !.cerr = Worse(call["R"].cerr, e)]
       IN  IF CloseLoopReturns(e, "nil")
           THEN /\ CloseFinish(c, e)
                /\ status' = status
           ELSE /\ CloseFinish(c, "nil")
                /\ status' = CLOSED
  /\ rClosed' = TRUE
  /\ UNCHANGED <<mask, wClosed, inb, rdpos, peer, out, sm, body, ncalls,
                 nreads>>

\* Ping(), called by the application: ping's SendMessage of a Ping message.
CallPing ==
  /\ RIdleFor(FALSE)
  /\ ncalls < MaxCalls
  /\ pc' = [pc EXCEPT !["R"] = "pg_send"]
  /\ call' = [call EXCEPT !["R"] = NewCall("Ping", 0, <<>>)]
  /\ sm' = [sm EXCEPT !["R"] = SmStart(Ping, "empty", <<>>)]
  /\ msg' = NoMsg
  /\ ncalls' = ncalls + 1
  /\ UNCHANGED <<status, mask, wClosed, rClosed, inb, rdpos, peer, out, body,
                 ret, nreads>>

\* ping after its SendMessage returned: the error, or the ReadMessage loop.
PgSendDone ==
  /\ pc["R"] = "pg_send"
  /\ sm["R"].ph = "done"
  /\ sm' = [sm EXCEPT !["R"] = SmOff]
  /\ IF sm["R"].err # "nil"
     THEN /\ pc' = [pc EXCEPT !["R"] = "idle"]
          /\ ret' = [ret EXCEPT !["R"] =
                       Returned(call["R"], sm["R"].err, rdpos)]
          /\ call' = [call EXCEPT !["R"] = NoCall]
     ELSE /\ pc' = [pc EXCEPT !["R"] = "rm_read"]
          /\ UNCHANGED <<call, ret>>
  /\ UNCHANGED <<status, mask, wClosed, rClosed, inb, rdpos, peer, out, msg,
                 body, ncalls, nreads>>

\* Length of the buffer io.Copy reads with.
CopyBuf == 32768

\* ping's io.Copy(blackhole, message): one Read of the Pong's body.
PgDrain ==
  /\ pc["R"] = "pg_drain"
  /\ \E d \in 1..BufLen :
       LET r == BodyRead(body, CopyBuf, d)
           c == [call["R"] EXCEPT !.rx = call["R"].rx \o r.rx]
       IN  /\ body' = r.body
           /\ inb' = SubSeq(inb, r.used + 1, Len(inb))
           /\ rdpos' = rdpos + r.used
           /\ IF r.err = "nil"
              THEN /\ call' = [call EXCEPT !["R"] = c]
                   /\ UNCHANGED <<pc, ret>>
              ELSE /\ pc' = [pc EXCEPT !["R"] = "idle"]
                   /\ call' = [call EXCEPT !["R"] = NoCall]
                   /\ ret' = [ret EXCEPT !["R"] =
                                Returned(c, IF r.err = "EOF" THEN "nil"
                                            ELSE r.err, rdpos + r.used)]
  /\ UNCHANGED <<status, mask, wClosed, rClosed, peer, out, sm, msg, ncalls,
                 nreads>>

\* The application reads the body of the Message ReadMessage returned:
\* message.Read(b), len(b) = k.
MsgRead(k, conc) ==
  /\ RIdleFor(conc)
  /\ msg.has /\ msg.ret
  /\ nreads < MaxBodyReads
  /\ \E d \in 1..BufLen :
       LET r == BodyRead(body, k, d)
       IN  /\ body' = r.body
           /\ inb' = SubSeq(inb, r.used + 1, Len(inb))
           /\ rdpos' = rdpos + r.used
           /\ msg' = [msg EXCEPT !.got = msg.got \o r.data,
                                 !.errs = Append(msg.errs, r.err)]
           /\ ret' = [ret EXCEPT !["R"] =
                        [NoCall EXCEPT !.api = "Read", !.id = msg.id,
                                       !.st0 = status, !.rd0 = rdpos,
                                       !.rd1 = rdpos + r.used, !.rx = r.rx,
                                       !.err = r.err, !.data = r.data]]
  /\ nreads' = nreads + 1
  /\ UNCHANGED <<status, mask, wClosed, rClosed, peer, out, pc, call, sm,
                 ncalls>>

\* ------------------------------------------------------------ inputs

\* The payload of n bytes the application sends: 5, 6, 7, ...
Payload(n) == [i \in 1..n |-> 4 + i]
SendPayloads == {Payload(n) : n \in 0..MaxPayload}
SendOps == {TextFrame, BinaryFrame, Pong}

\* The frames the peer sends.
PeerFrames ==
  {Frm(TRUE, TextFrame, <<138, 0>>), Frm(FALSE, TextFrame, <<7>>),
   Frm(TRUE, ContinuationFrame, <<7>>), Frm(TRUE, Ping, <<7>>),
   Frm(TRUE, Pong, <<>>),
   Frm(TRUE, ConnectionClose, <<>>)}

SeqsUpTo(S, n) == UNION {[1..k -> S] : k \in 0..n}

\* ------------------------------------------------------------ specifications

\* NewWebSocket(writer, reader, mask), status OPEN, the peer having sent the
\* frames fs, of which the last `cut` bytes did not arrive.
InitWith(PeerSeqs, Cuts) ==
  /\ status = OPEN
  /\ mask \in BOOLEAN
  /\ wClosed = FALSE
  /\ rClosed = FALSE
  /\ peer \in PeerSeqs
  /\ \E cut \in Cuts :
       LET wb == Wire(peer, ~mask)
       IN  inb = SubSeq(wb, 1, Len(wb) - Min(cut, Len(wb)))
  /\ rdpos = 0
  /\ out = <<>>
  /\ pc = [t \in Tasks |-> "idle"]
  /\ call = [t \in Tasks |-> NoCall]
  /\ sm = [t \in Tasks |-> SmOff]
  /\ msg = NoMsg
  /\ body = NoBody
  /\ ret = [t \in Tasks |-> NoCall]
  /\ ncalls = 0
  /\ nreads = 0

Init == InitWith(SeqsUpTo(PeerFrames, MaxPeerFrames), {0, 1})

\* One call at a time.
Next ==
  \/ CallSend("Send", TextFrame, "buf", Payload(1), FALSE)
  \/ CallSend("SendMessage", BinaryFrame, "any", Payload(1), FALSE)
  \/ SendDone
  \/ \E t \in Tasks : SmRead(t)
  \/ \E t \in Tasks : SmReadBody(t)
  \/ \E t \in Tasks : SmHdr(t)
  \/ \E t \in Tasks : SmPay(t)
  \/ CallReadMessage(FALSE)
  \/ RmRead
  \/ RmPongDone
  \/ CallClose
  \/ ClSendDone
  \/ ClCloseW
  \/ ClCloseR
  \/ CallPing
  \/ PgSendDone
  \/ PgDrain
  \/ MsgRead(CopyBuf, FALSE)

Spec == Init /\ [][Next]_vars

\* Sending only: no frame arrives, and the application calls Send and
\* SendMessage with every opcode of SendOps, payload of SendPayloads and
\* Reader behaviour.
InitSend == InitWith({<<>>}, {0})

NextSend ==
  \/ \E P \in SendPayloads : CallSend("Send", TextFrame, "buf", P, FALSE)
  \/ \E op \in SendOps, P \in SendPayloads :
       CallSend("SendMessage", op, "any", P, FALSE)
  \/ SendDone
  \/ SmRead("W")
  \/ SmHdr("W")
  \/ SmPay("W")

SpecSend == InitSend /\ [][NextSend]_vars

\* SendMessage with a payload source that never fails, in a goroutine that
\* keeps running: a step that can be taken is taken.
NextSendLive ==
  \/ \E op \in SendOps, P \in SendPayloads :
       CallSend("SendMessage", op, "short", P, FALSE)
  \/ SendDone
  \/ SmRead("W")
  \/ SmHdr("W")
  \/ SmPay("W")

SpecSendLive == InitSend /\ [][NextSendLive]_vars /\ WF_vars(NextSendLive)

\* One task in ReadMessage and one in SendMessage at the same time.
ConcPeerFrames ==
  {Frm(TRUE, TextFrame, <<7>>), Frm(TRUE, Ping, <<7>>),
   Frm(TRUE, ConnectionClose, <<>>)}

InitConc == InitWith(SeqsUpTo(ConcPeerFrames, 1), {0})

NextConc ==
  \/ \E P \in {Payload(1), Payload(BufLen)} :
       CallSend("SendMessage", TextFrame, "buf", P, TRUE)
  \/ SendDone
  \/ \E t \in Tasks : SmRead(t)
  \/ \E t \in Tasks : SmReadBody(t)
  \/ \E t \in Tasks : SmHdr(t)
  \/ \E t \in Tasks : SmPay(t)
  \/ CallReadMessage(TRUE)
  \/ RmRead
  \/ RmPongDone
  \/ ClSendDone
  \/ ClCloseW
  \/ ClCloseR

SpecConc == InitConc /\ [][NextConc]_vars

\* The calls of Next on a connection whose peer sends control frames: a
\* Ping whose payload fills a chunk buffer, a Ping in two fragments, a Pong.
CtlPeerFrames ==
  {Frm(TRUE, Ping, Payload(BufLen)), Frm(FALSE, Ping, <<7>>),
   Frm(TRUE, ContinuationFrame, <<7>>), Frm(TRUE, Pong, <<>>)}

InitCtl == InitWith(SeqsUpTo(CtlPeerFrames, 2), {0})

SpecCtl == InitCtl /\ [][Next]_vars

\* ------------------------------------------------------------ Frame codec

\* Opcodes are the 4-bit values 0..15.
OpCodes == 0..15
\* Payload lengths given to Encode with their bytes: both sides of the
\* boundaries of the 7-bit form.
FrameLens == {0, 1, 124, 125, 126, 127}
\* Payload lengths at the boundary of the 64-bit form.
BigFrameLens == {65535, 65536}
\* The payload of n bytes of a frame: 7, 14, 21, ...
FramePayload(n) == [i \in 1..n |-> (7 * i) % 256]
\* What follows the frame on the stream: the header of another frame.
Trailer == <<129, 0>>
\* Buffer lengths of the reads made on a decoded frame's Payload of n bytes:
\* short buffers on short payloads, io.Copy's buffer on any.
FrameReadLens(n) == IF n <= 127 THEN {100, CopyBuf} ELSE {CopyBuf}

\* A Frame {Fin, OpCode, Mask, Payload: N bytes} about to be encoded.
InitFrame ==
  /\ status = OPEN
  /\ mask \in BOOLEAN
  /\ wClosed = FALSE
  /\ rClosed = FALSE
  /\ peer \in {<<Frm(f, op, FramePayload(n))>> :
                 f \in BOOLEAN, op \in OpCodes, n \in FrameLens}
              \cup {<<Frm(TRUE, BinaryFrame, FramePayload(n))>> :
                      n \in BigFrameLens}
  /\ inb = <<>>
  /\ rdpos = 0
  /\ out = <<>>
  /\ pc = [t \in Tasks |-> IF t = "R" THEN "fr_enc" ELSE "idle"]
  /\ call = [t \in Tasks |-> NoCall]
  /\ sm = [t \in Tasks |-> SmOff]
  /\ msg = NoMsg
  /\ body = NoBody
  /\ ret = [t \in Tasks |-> NoCall]
  /\ ncalls = 0
  /\ nreads = 0

\* f.Encode(), drained: the header (kept in out), then the payload, which a
\* stream
\* carries to a decoder, followed by other bytes.
FrEncode ==
  /\ pc["R"] = "fr_enc"
  /\ \E key \in KeySet :
       LET f == peer[1]
           h == EncodeHeader(f.fin, f.op, mask, Len(f.payload), key)
           b == EncodePayload(mask, key, f.payload)
       IN  /\ out' = <<[id |-> 1, t |-> "R", b |-> h]>>
           /\ inb' = h \o b \o Trailer
  /\ pc' = [pc EXCEPT !["R"] = "fr_dec"]
  /\ UNCHANGED <<status, mask, wClosed, rClosed, rdpos, peer, call, sm, msg,
                 body, ret, ncalls, nreads>>

\* g.Decode(ctx, reader) on that stream.
FrDecode ==
  /\ pc["R"] = "fr_dec"
  /\ LET d == Decode(inb, FALSE)
     IN  /\ ret' = [ret EXCEPT !["R"] =
                      [NoCall EXCEPT !.api = "Decode", !.id = 1,
                                     !.err = d.err, !.rd1 = d.used,
                                     !.rx = <<RxOf(d, 0)>>,
                                     !.op = IF d.mask THEN 1 ELSE 0]]
         /\ inb' = SubSeq(inb, d.used + 1, Len(inb))
         /\ rdpos' = rdpos + d.used
         /\ body' = IF d.err = "nil" THEN FrameBody(d) ELSE NoBody
         /\ pc' = [pc EXCEPT !["R"] =
                     IF d.err = "nil" THEN "fr_read" ELSE "fr_done"]
  /\ UNCHANGED <<status, mask, wClosed, rClosed, peer, out, call, sm, msg,
                 ncalls, nreads>>

\* g.Payload.Read(p), len(p) = k, until it reports an error.  (ReadCur is
\* the read of a final frame's payload when told that the frame is final.)
FrRead ==
  /\ pc["R"] = "fr_read"
  /\ \E k \in FrameReadLens(Len(peer[1].payload)) :
       LET r == ReadCur([body EXCEPT !.fin = TRUE], k, k, inb, FALSE)
       IN  /\ body' = [r.body EXCEPT !.fin = body.fin]
           /\ inb' = SubSeq(inb, r.used + 1, Len(inb))
           /\ rdpos' = rdpos + r.used
           /\ msg' = [msg EXCEPT !.got = msg.got \o r.data,
                                 !.errs = Append(msg.errs, r.err)]
           /\ pc' = [pc EXCEPT !["R"] =
                       IF r.err = "nil" THEN "fr_read" ELSE "fr_done"]
  /\ UNCHANGED <<status, mask, wClosed, rClosed, peer, out, call, sm, ret,
                 ncalls, nreads>>

NextFrame == FrEncode \/ FrDecode \/ FrRead

SpecFrame == InitFrame /\ [][NextFrame]_vars

\* ------------------------------------------------------------ maskReader

\* Longest byte sequence put through the masking filter.
MaskLen == 5
\* The bytes it is made of.
MaskByteSet == {0, 7, 200}

\* maskReader(key, reader), reader holding the bytes S: pass 1.  inb is
\* what the underlying reader still holds, msg.got what the filter has
\* delivered, body.ki the closure's index i.
InitMask ==
  /\ status = OPEN
  /\ mask = TRUE
  /\ wClosed = FALSE
  /\ rClosed = FALSE
  /\ peer \in {<<Frm(TRUE, BinaryFrame, S)>> :
                 S \in SeqsUpTo(MaskByteSet, MaskLen)}
  /\ inb = peer[1].payload
  /\ rdpos = 0
  /\ out = <<>>
  /\ pc = [t \in Tasks |-> IF t = "R" THEN "mk_1" ELSE "idle"]
  /\ call = [t \in Tasks |-> NoCall]
  /\ sm = [t \in Tasks |-> SmOff]
  /\ msg = NoMsg
  /\ \E key \in Keys :
       body = [NoBody EXCEPT !.has = TRUE, !.mask = TRUE, !.key = key]
  /\ ret = [t \in Tasks |-> NoCall]
  /\ ncalls = 0
  /\ nreads = 0

\* One Read(p) on the filter: the underlying reader delivers n bytes, which
\* are XORed in place, and i advances.
MkRead ==
  /\ pc["R"] \in {"mk_1", "mk_2"}
  /\ \E n \in 1..Len(inb) :
       /\ msg' = [msg EXCEPT !.got = msg.got
                      \o MaskBytes(body.key, body.ki, SubSeq(inb, 1, n))]
       /\ inb' = SubSeq(inb, n + 1, Len(inb))
       /\ body' = [body EXCEPT !.ki = MaskNext(body.ki, n)]
       /\ rdpos' = rdpos + n
  /\ UNCHANGED <<status, mask, wClosed, rClosed, peer, out, pc, call, sm, ret,
                 ncalls, nreads>>

\* The underlying reader is at its end.  After pass 1 the bytes delivered
\* go through a new maskReader with the same key (pass 2).
MkEnd ==
  /\ pc["R"] \in {"mk_1", "mk_2"}
  /\ inb = <<>>
  /\ IF pc["R"] = "mk_1"
     THEN /\ pc' = [pc EXCEPT !["R"] = "mk_2"]
          /\ inb' = msg.got
          /\ out' = <<[id |-> 1, t |-> "R", b |-> msg.got]>>
          /\ msg' = [msg EXCEPT !.got = <<>>]
          /\ body' = [body EXCEPT !.ki = 0]
          /\ rdpos' = 0
     ELSE /\ pc' = [pc EXCEPT !["R"] = "mk_done"]
          /\ UNCHANGED <<inb, out, msg, body, rdpos>>
  /\ UNCHANGED <<status, mask, wClosed, rClosed, peer, call, sm, ret, ncalls,
                 nreads>>

NextMask == MkRead \/ MkEnd

SpecMask == InitMask /\ [][NextMask]_vars

\* ------------------------------------------------------------ client handshake

\* Strings are sequences of ASCII codes.
StrUpgrade == <<117, 112, 103, 114, 97, 100, 101>>
StrWebsocket == <<119, 101, 98, 115, 111, 99, 107, 101, 116>>
\* A faulty strings.ToLower: the string as it is.
ToLower_AsIs(str) == str

\* strings.ToLower on ASCII.
ToLower(str) ==
  [i \in 1..Len(str) |->
     IF str[i] >= 65 /\ str[i] <= 90 THEN str[i] + 32 ELSE str[i]]
\* strings.Contains(str, sub)
Contains(str, sub) ==
  \E i \in 0..(Len(str) - Len(sub)) :
    SubSeq(str, i + 1, i + Len(sub)) = sub
\* The status code of "101 Switching Protocols".
SwitchingProtocols == 101
\* getSecWebsocketKey(): base64 of the time of day, to the second.
HandshakeKeys == {<<49>>, <<50>>}
\* getSecAcceptKey(key): base64(sha1(key + GUID)), a value that the key
\* determines and that differs for different keys.
GetSecAcceptKey(key) == <<"sha1", key, "258EAFA5-E914-47DA-95CA-C5AB0DC85B11">>

\* Values of the response's Connection header (v), with whether they name
\* the token upgrade in any case (ok); of its Upgrade header, with whether
\* they name websocket; its status codes.
ConnectionValues ==
  {[v |-> <<117, 112, 103, 114, 97, 100, 101>>, ok |-> TRUE],
   [v |-> <<85, 112, 103, 114, 97, 100, 101>>, ok |-> TRUE],
   [v |-> <<107, 101, 101, 112, 45, 97, 108, 105, 118, 101, 44, 32,
            85, 80, 71, 82, 65, 68, 69>>, ok |-> TRUE],
   [v |-> <<99, 108, 111, 115, 101>>, ok |-> FALSE],
   [v |-> <<>>, ok |-> FALSE]}
UpgradeValues ==
  {[v |-> <<119, 101, 98, 115, 111, 99, 107, 101, 116>>, ok |-> TRUE],
   [v |-> <<87, 101, 98, 83, 111, 99, 107, 101, 116>>, ok |-> TRUE],
   [v |-> <<119, 101, 98, 115, 111, 99, 107, 101>>, ok |-> FALSE],
   [v |-> <<104, 50, 99>>, ok |-> FALSE],
   [v |-> <<>>, ok |-> FALSE]}
StatusCodes == {SwitchingProtocols, 100, 200, 404}

\* ConnectWithDialer(ctx, dialer, request) is called; no connection exists
\* (status 0).  peer[1] is the response the server will give.
InitHandshake ==
  /\ status = 0
  /\ mask = FALSE
  /\ wClosed = FALSE
  /\ rClosed = FALSE
  /\ peer \in {<<[code |-> c, connection |-> cv, upgrade |-> uv,
                   accept |-> a]>> :
                 c \in StatusCodes, cv \in ConnectionValues,
                 uv \in UpgradeValues,
                 a \in {GetSecAcceptKey(k) : k \in HandshakeKeys}
                         \cup {<<>>}}
  /\ inb = <<>>
  /\ rdpos = 0
  /\ out = <<>>
  /\ pc = [t \in Tasks |-> IF t = "R" THEN "hs_dial" ELSE "idle"]
  /\ call = [t \in Tasks |->
               IF t = "R" THEN [NoCall EXCEPT !.api = "ConnectWithDialer",
                                              !.id = 1]
               ELSE NoCall]
  /\ sm = [t \in Tasks |-> SmOff]
  /\ msg = NoMsg
  /\ body = NoBody
  /\ ret = [t \in Tasks |-> NoCall]
  /\ ncalls = 1
  /\ nreads = 0

\* ConnectWithDialer returns (nil, e).
HsFail(e) ==
  /\ ret' = [ret EXCEPT !["R"] = [call["R"] EXCEPT !.err = e]]
  /\ pc' = [pc EXCEPT !["R"] = "hs_done"]
  /\ call' = [call EXCEPT !["R"] = NoCall]
  /\ UNCHANGED <<status, mask>>

\* conn, err := dialer(ctx, "tcp", request.RemoteAddr)
HsDial ==
  /\ pc["R"] = "hs_dial"
  /\ \E ok \in BOOLEAN :
       IF ok THEN /\ pc' = [pc EXCEPT !["R"] = "hs_write"]
                  /\ UNCHANGED <<status, mask, call, ret>>
       ELSE HsFail("DialErr")
  /\ UNCHANGED <<wClosed, rClosed, inb, rdpos, peer, out, sm, msg, body,
                 ncalls, nreads>>

\* The four headers are set, with a fresh key, and the request is written.
HsWrite ==
  /\ pc["R"] = "hs_write"
  /\ \E ok \in BOOLEAN, key \in HandshakeKeys :
       IF ok THEN /\ pc' = [pc EXCEPT !["R"] = "hs_read"]
                  /\ call' = [call EXCEPT !["R"].P = key]
                  /\ out' = <<[id |-> 1, t |-> "R", b |-> key]>>
                  /\ UNCHANGED <<status, mask, ret>>
       ELSE HsFail("WriteErr") /\ out' = out
  /\ UNCHANGED <<wClosed, rClosed, inb, rdpos, peer, sm, msg, body, ncalls,
                 nreads>>

\* resp, err := http.ReadResponse(...), then the checks on resp and
\* NewWebSocket(conn, conn, true).
HsRead ==
  /\ pc["R"] = "hs_read"
  /\ \E ok \in BOOLEAN :
       LET resp == peer[1]
       IN  IF ~ok THEN HsFail("ReadErr")
           ELSE IF resp.code # SwitchingProtocols THEN HsFail("Status")
           ELSE IF ~Contains(ToLower(resp.connection.v), StrUpgrade)
           THEN HsFail("Failed")
           ELSE IF ~Contains(ToLower(resp.upgrade.v), StrWebsocket)
           THEN HsFail("Failed")
           ELSE IF GetSecAcceptKey(call["R"].P) # resp.accept
           THEN HsFail("Failed")
           ELSE /\ status' = OPEN
                /\ mask' = TRUE
                /\ ret' = [ret EXCEPT !["R"] =
                             [call["R"] EXCEPT !.err = "nil", !.rd1 = 1]]
                /\ pc' = [pc EXCEPT !["R"] = "hs_done"]
                /\ call' = [call EXCEPT !["R"] = NoCall]
  /\ UNCHANGED <<wClosed, rClosed, inb, rdpos, peer, out, sm, msg, body,
                 ncalls, nreads>>

NextHandshake == HsDial \/ HsWrite \/ HsRead

SpecHandshake == InitHandshake /\ [][NextHandshake]_vars

\* ------------------------------------------------------------ the wire

RECURSIVE BytesOf(_, _)
\* The bytes the call `id` wrote, in the order of its writes in `ws`.
BytesOf(ws, id) ==
  IF Len(ws) = 0 THEN <<>>
  ELSE (IF Head(ws).id = id THEN Head(ws).b ELSE <<>>) \o BytesOf(Tail(ws), id)

BadFrame == [fin |-> FALSE, op |-> 16, mask |-> FALSE, payload |-> <<>>]

RECURSIVE ParseWire(_)
\* The frames a receiver decodes from the bytes bs (RFC 6455, section 5.2):
\* their fin, opcode, mask bit and unmasked payload; BadFrame where the
\* bytes stop being frames.
ParseWire(bs) ==
  IF Len(bs) = 0 THEN <<>>
  ELSE LET d == Decode(bs, FALSE)
       IN  IF d.err # "nil" \/ Len(bs) < d.used + d.n THEN <<BadFrame>>
           ELSE <<[fin |-> d.fin, op |-> d.op, mask |-> d.mask,
                   payload |-> IF d.mask
                               THEN MaskBytes(d.key, 0,
                                      SubSeq(bs, d.used + 1, d.used + d.n))
                               ELSE SubSeq(bs, d.used + 1, d.used + d.n)]>>
                \o ParseWire(SubSeq(bs, d.used + d.n + 1, Len(bs)))

\* The frames the call `id` put on the writer.
FramesOf(id) == ParseWire(BytesOf(out, id))

\* ------------------------------------------------------------ claims

\* C1 (as claimed): the status only ever moves Open -> Closing -> Closed; no
\* step of Send, SendMessage, ReadMessage, Ping or Close lowers it.
C1_StatusNeverBackward == [][status' >= status]_vars

\* C2 (as claimed): a Send, SendMessage, ReadMessage or Ping called with
\* status Closing or Closed returns ErrClosedStatus, having written no byte
\* and read no byte of the connection's streams.
GatedApis == {"Send", "SendMessage", "ReadMessage", "Ping"}
C3_CloseClosesStreams ==
  (ret["R"].api = "Close" /\ ret["R"].st0 = OPEN)
    => (wClosed /\ rClosed /\ status = CLOSED)

\* C4 (as claimed): a Close() whose Close frame was written returns the
\* error of a stream whose Close failed otherwise than with "already
\* closed", and nil when a stream only reported that it was already closed.
C4_CloseReturnsStreamError ==
  (ret["R"].api = "Close" /\ ret["R"].st0 = OPEN
     /\ BytesOf(out, ret["R"].id) # <<>>)
    => /\ ret["R"].cerr = "CloseErr" => ret["R"].err = "CloseErr"
       /\ ret["R"].cerr = "ErrClosed" => ret["R"].err = "nil"

RECURSIVE Payloads(_)
\* The payloads of the frames fs, one after the other.
Payloads(fs) ==
  IF Len(fs) = 0 THEN <<>> ELSE Head(fs).payload \o Payloads(Tail(fs))

\* C5: a Send or SendMessage that returns nil has written frames of which
\* the first has the caller's opcode, the later ones opcode Continuation,
\* the last one, and no other, fin set, and whose payloads, one after the
\* other, are the caller's payload; a payload shorter than the chunk buffer
\* goes out as one frame.
C5_Fragmentation ==
  (ret["W"].api \in {"Send", "SendMessage"} /\ ret["W"].err = "nil")
    => LET fs == FramesOf(ret["W"].id)
       IN  /\ Len(fs) >= 1
           /\ fs[1].op = ret["W"].op
           /\ \A i \in 2..Len(fs) : fs[i].op = ContinuationFrame
           /\ \A i \in 1..Len(fs) : fs[i].fin <=> i = Len(fs)
           /\ \A i \in 1..Len(fs) : fs[i].mask = mask
           /\ Payloads(fs) = ret["W"].P
           /\ Len(ret["W"].P) < BufLen => Len(fs) = 1

\* C5 (witness): a SendMessage has returned nil for a payload longer than
\* the chunk buffer that its Reader delivered in several reads, and has
\* written more than one frame.
C5_Witness ==
  /\ ret["W"].api = "SendMessage"
  /\ ret["W"].err = "nil"
  /\ Len(ret["W"].P) > BufLen
  /\ Len(FramesOf(ret["W"].id)) >= 2
  /\ ret["W"].op = Pong
  /\ mask

\* The first frame the returned call of R decoded is the peer's k-th frame,
\* decoded where that frame starts.
FirstFrame == FrameAt(ret["R"].rx[1].at)
ReadMessageGot(op) ==
  /\ ret["R"].api = "ReadMessage"
  /\ ret["R"].st0 = OPEN
  /\ ret["R"].rx # <<>>
  /\ FirstFrame # 0
  /\ peer[FirstFrame].op = op
  /\ Whole(FirstFrame)

\* C6: a ReadMessage that decoded a Ping frame of the peer (a control
\* frame: fin set, a payload X shorter than the chunk buffer) returns nil
\* only when it has written exactly one frame, a Pong with fin set and
\* payload X; it returns an error only when a Write on the writer failed.
C6_PongEchoed ==
  (ReadMessageGot(Ping) /\ peer[FirstFrame].fin
     /\ Len(peer[FirstFrame].payload) < BufLen)
    => /\ ret["R"].err \in {"nil", "WriteErr"}
       /\ ret["R"].err = "nil"
            => FramesOf(ret["R"].id)
                 = <<[fin |-> TRUE, op |-> Pong, mask |-> mask,
                      payload |-> peer[FirstFrame].payload]>>

\* C6 (witness): ReadMessage has returned nil after a Ping frame with a
\* payload that is not empty, on a connection that masks.
C6_Witness ==
  /\ ReadMessageGot(Ping)
  /\ ret["R"].err = "nil"
  /\ peer[FirstFrame].payload # <<>>
  /\ mask
  /\ FramesOf(ret["R"].id)[1].op = Pong

\* C7 (as claimed): when a read on a message body finds a Ping frame of the
\* peer between a fragment that is not final and the Continuation frame
\* that follows, the read does not fail and a Pong with the Ping's payload
\* has been written.
C7_PingBetweenFragments ==
  LET k == FrameAt(ret["R"].rx[1].at)
  IN  (/\ ret["R"].api = "Read"
       /\ ret["R"].rx # <<>>
       /\ k > 1 /\ k < Len(peer)
       /\ peer[k].op = Ping /\ peer[k].fin
       /\ ~peer[k - 1].fin
       /\ peer[k + 1].op = ContinuationFrame
       /\ Whole(k + 1))
        => /\ ret["R"].err = "nil"
           /\ \E i \in 1..Len(out) :
                ParseWire(out[i].b \o (IF i < Len(out) THEN out[i + 1].b
                                       ELSE <<>>))
                  = <<[fin |-> TRUE, op |-> Pong, mask |-> mask,
                       payload |-> peer[k].payload]>>

\* C9 (as claimed): a Ping() that returns nil has written a Ping frame and
\* has then received a frame of the peer whose opcode is Pong.  Stated for
\* the runs in which Ping() decoded every header where a frame of the peer
\* starts, and that frame arrived whole, so that each frame it received is
\* a frame the peer sent.
C9_PingNeedsPong ==
  (/\ ret["R"].api = "Ping"
   /\ ret["R"].err = "nil"
   /\ \A i \in 1..Len(ret["R"].rx) :
        FrameAt(ret["R"].rx[i].at) # 0 /\ Whole(FrameAt(ret["R"].rx[i].at)))
    => /\ FramesOf(ret["R"].id) # <<>>
       /\ FramesOf(ret["R"].id)[1].op = Ping
       /\ \E i \in 1..Len(ret["R"].rx) :
            LET k == FrameAt(ret["R"].rx[i].at)
            IN  k # 0 /\ peer[k].op = Pong

\* C10 (as claimed): when a ReadMessage that decoded a Close frame of the
\* peer has returned, the message or an error, both streams are closed and
\* status is Closed.
C10_CloseFrameCloses ==
  ReadMessageGot(ConnectionClose)
    => (status = CLOSED /\ wClosed /\ rClosed)

\* C8 (as claimed): the Write calls of one SendMessage call are adjacent on
\* the writer: no write of another call lies between two of them.
C8_NoInterleaving ==
  \A i, j, l \in 1..Len(out) :
    (i < j /\ j < l /\ out[i].id = out[l].id) => out[j].id = out[i].id

\* C11: while a Send or SendMessage runs, and when it returns, the status
\* and the two streams stay as they were: a call made on an Open connection
\* that fails, at its first frame or a later one, returns the error of the
\* payload source or of the writer and leaves status Open and both streams
\* unclosed.
C11_SendFailureLeavesOpen ==
  [][pc["W"] = "send"
       => /\ status' = status
          /\ wClosed' = wClosed
          /\ rClosed' = rClosed
          /\ (pc'["W"] = "idle" /\ call["W"].st0 = OPEN)
               => /\ ret'["W"].err \in {"nil", "SrcErr", "WriteErr"}
                  /\ ret'["W"].err = sm["W"].err
                  /\ status' = OPEN /\ ~wClosed' /\ ~rClosed']_vars

\* C11 (witness): a SendMessage has failed on a Write after it had written
\* a whole frame, and the connection is Open with both streams unclosed.
C11_Witness ==
  /\ ret["W"].api = "SendMessage"
  /\ ret["W"].err = "WriteErr"
  /\ Len(ParseWire(BytesOf(out, ret["W"].id))) >= 1
  /\ ParseWire(BytesOf(out, ret["W"].id))[1].op = ret["W"].op
  /\ status = OPEN /\ ~wClosed /\ ~rClosed

\* C12 (as claimed): Encode writes the 7-bit length form for every N in
\* 0..125, the 16-bit form (marker 126 and 2 length bytes) for every N in
\* 126..65535 and the 64-bit form (marker 127 and 8 length bytes) for every
\* N >= 65536.
C12_LengthForm ==
  pc["R"] # "fr_enc"
    => LET N   == Len(peer[1].payload)
           h   == out[1].b
           l7  == h[2] % 128
           ext == Len(h) - 2 - (IF mask THEN 4 ELSE 0)
       IN  /\ N <= 125 => (l7 = N /\ ext = 0)
           /\ (126 <= N /\ N <= 65535) => (l7 = 126 /\ ext = 2)
           /\ N >= 65536 => (l7 = 127 /\ ext = 8)

C14_MaskTwiceIdentity ==
  LET S == peer[1].payload
  IN  /\ pc["R"] = "mk_1"
           => \A j \in 1..Len(msg.got) :
                msg.got[j] = Xor(S[j], body.key[((j - 1) % 4) + 1])
      /\ pc["R"] \in {"mk_2", "mk_done"}
           => /\ Len(out[1].b) = Len(S)
              /\ \A j \in 1..Len(S) :
                   out[1].b[j] = Xor(S[j], body.key[((j - 1) % 4) + 1])
              /\ msg.got = SubSeq(S, 1, Len(msg.got))
      /\ pc["R"] = "mk_done" => msg.got = S

\* C14 (witness): a sequence of the greatest length, longer than the key,
\* went twice through the filter with a key that is not zero; pass 1
\* changed it and pass 2 gave it back.
C14_Witness ==
  /\ pc["R"] = "mk_done"
  /\ Len(peer[1].payload) = MaskLen
  /\ body.key # NoKey
  /\ msg.got = peer[1].payload
  /\ out[1].b # peer[1].payload
  /\ body.ki = 1

\* C15: ConnectWithDialer, when it has returned after a response arrived,
\* has returned a connection (status Open, masking on) exactly when the
\* response has status 101, a Connection header naming upgrade and an
\* Upgrade header naming websocket, in any case, and the accept value of
\* the key that was sent; otherwise, and when no response arrived, it has
\* returned an error and there is no connection.
C15_HandshakeIff ==
  pc["R"] = "hs_done"
    => LET resp == peer[1]
           good == /\ ret["R"].err \notin {"DialErr", "WriteErr", "ReadErr"}
                   /\ resp.code = 101
                   /\ resp.connection.ok
                   /\ resp.upgrade.ok
                   /\ resp.accept = GetSecAcceptKey(ret["R"].P)
       IN  /\ good <=> ret["R"].err = "nil"
           /\ ret["R"].err = "nil" => (status = OPEN /\ mask)
           /\ ret["R"].err # "nil" => (status = 0 /\ ~mask)

\* C15 (witness): a response with status 101, Connection "keep-alive,
\* UPGRADE", Upgrade "WebSocket" and the right accept value has given a
\* connection.
C15_Witness ==
  /\ pc["R"] = "hs_done"
  /\ ret["R"].err = "nil"
  /\ status = OPEN /\ mask
  /\ Len(peer[1].connection.v) > 7
  /\ peer[1].upgrade.v # StrWebsocket

\* C16: a read on a message body that fetched the next frame (the frame
\* before it was not final and its payload was exhausted) fails with
\* ErrPreviousMessageNotReadToCompletion, delivering nothing, when that
\* frame's opcode is not Continuation; when it is Continuation the read
\* does not fail so and delivers bytes from the start of that frame's
\* payload, at least one if the frame arrived whole with a payload.
C16_ContinuationOrErrPrev ==
  (ret["R"].api = "Read" /\ ret["R"].rx # <<>>)
    => LET fr == ret["R"].rx[1]
           k  == FrameAt(fr.at)
       IN  /\ fr.op # ContinuationFrame
                => /\ ret["R"].err = "ErrPreviousMessageNotReadToCompletion"
                   /\ ret["R"].data = <<>>
           /\ fr.op = ContinuationFrame
                => /\ ret["R"].err
                        # "ErrPreviousMessageNotReadToCompletion"
                   /\ k # 0
                        => /\ ret["R"].data
                                = SubSeq(peer[k].payload, 1,
                                         Len(ret["R"].data))
                           /\ (Whole(k) /\ peer[k].payload # <<>>)
                                => ret["R"].data # <<>>

\* C16 (witness): a body read went on from a fragment that was not final
\* into the Continuation frame after it and delivered a byte of it.
C16_Witness ==
  /\ ret["R"].api = "Read"
  /\ ret["R"].rx # <<>>
  /\ ret["R"].rx[1].op = ContinuationFrame
  /\ FrameAt(ret["R"].rx[1].at) > 1
  /\ ~peer[FrameAt(ret["R"].rx[1].at) - 1].fin
  /\ ret["R"].data = <<7>>
  /\ ret["R"].err = "nil"

\* C17 (as claimed): a read on a message body reports the end of the
\* message (EOF) only when the current frame is final and all the bytes its
\* header declared have been delivered; a stream that ends earlier makes
\* the read fail with another error.
C17_EofAfterDeclaredBytes ==
  [][(nreads' # nreads /\ ret'["R"].err = "EOF")
       => (body'.has /\ body'.fin /\ body'.n = 0)]_vars

\* C18 (as claimed): when Ping() is called with the incoming stream at the
\* start of a frame, and the peer's frames arrived whole, every frame
\* header Ping() decodes lies where a frame of the peer starts: the
\* payloads of the messages it skipped were drained.
C18_PingDrainsSkipped ==
  (/\ ret["R"].api = "Ping"
   /\ FrameAt(ret["R"].rd0) # 0
   /\ Len(peer) > 0 /\ Whole(Len(peer)))
    => \A i \in 1..Len(ret["R"].rx) : FrameAt(ret["R"].rx[i].at) # 0

\* C19 (as claimed): every frame on the writer with opcode Close, Ping or
\* Pong has fin set, so that no Continuation frame belongs to it.
C19_ControlFramesWhole ==
  \A id \in 1..ncalls :
    LET fs == FramesOf(id)
    IN  \A i \in 1..Len(fs) :
          fs[i].op \in {ConnectionClose, Ping, Pong} => fs[i].fin

\* C20 (as claimed): a SendMessage whose payload source delivers its bytes
\* in reads of any sizes, answers a Read into an empty buffer with (0, nil)
\* and then reports EOF, returns.
C20_SendMessageTerminates == (pc["W"] = "send") ~> (pc["W"] = "idle")

\* C21 (as claimed): once a read on a message body has failed with
\* ErrPreviousMessageNotReadToCompletion, every later read on that same
\* body delivers no bytes: the payload of the frame that interrupted the
\* message is not handed to the caller.
C21_NoBytesAfterErrPrev ==
  [][(/\ nreads' # nreads
      /\ msg'.id = msg.id
      /\ \E i \in 1..Len(msg.errs) :
            msg.errs[i] = "ErrPreviousMessageNotReadToCompletion")
       => ret'["R"].data = <<>>]_vars

=============================================================================
